---- MODULE Spec2Model ----
(***************************************************************************)
(* Model of the "macro" cog (src/macro/module.py): the trigger index, the  *)
(* match engine (_process_macro), the dispatcher (on_message) and the      *)
(* management commands (macro add / update / remove).                      *)
(*                                                                         *)
(* Strings are sequences of one-character strings, so that lower(),        *)
(* startswith(), endswith() and "in" are computed and not assumed.         *)
(* The macro store (TextMacro, .database) is not part of src/; it is       *)
(* modelled from the specification's section 6 as a table in insertion     *)
(* order.                                                                  *)
(***************************************************************************)
EXTENDS Integers, Sequences, FiniteSets, TLC

VARIABLES store, triggers, task, cmd

vars == <<store, triggers, task, cmd>>

(***************************************************************************)
(* Bounds of the model.                                                    *)
(***************************************************************************)
\* Longest message body drawn in the match-engine specification.
MaxMsgLen == 3
\* Longest trigger text drawn in the match-engine specification.
MaxTrigLen == 1
\* Most triggers of one macro drawn in the match-engine specification.
MaxTriggers == 2
\* Most macros held by the store (add is not offered beyond it).
MaxMacros == 2
\* Messages are offered only while every counter is below this value.
MaxCounter == 1

None == "None"

Guilds == {1, 2}
Names == {"m1", "m2"}
ChannelIds == {42, 43}
UserIds == {7, 8}
Alphabet == {"a", "A", "b"}
MatchNames == {"FULL", "START", "END", "ANY"}

(***************************************************************************)
(* Strings.                                                                *)
(***************************************************************************)
\* str.lower() on one character of the alphabet.
LowerChar(c) == CASE c = "A" -> "a" [] c = "B" -> "b" [] OTHER -> c

\* str.lower()
Lower(s) == [i \in 1..Len(s) |-> LowerChar(s[i])]

\* content.startswith(t)
StartsWith(content, t) ==
    /\ Len(t) <= Len(content)
    /\ \A i \in 1..Len(t) : content[i] = t[i]

\* content.endswith(t)
EndsWith(content, t) ==
    /\ Len(t) <= Len(content)
    /\ \A i \in 1..Len(t) : content[Len(content) - Len(t) + i] = t[i]

\* t in content
Contains(content, t) ==
    \E k \in 0..(Len(content) - Len(t)) :
        \A i \in 1..Len(t) : content[k + i] = t[i]

\* All strings over the alphabet of length lo..hi.
StringsOf(lo, hi) == UNION {[1..n -> Alphabet] : n \in lo..hi}

(***************************************************************************)
(* The macro store (TextMacro), in insertion order.                        *)
(***************************************************************************)
\* Position of (guild_id, name) in the table, 0 when absent.
Find(st, guild_id, name) ==
    IF \E i \in 1..Len(st) : st[i].guild_id = guild_id /\ st[i].name = name
    THEN CHOOSE i \in 1..Len(st) : st[i].guild_id = guild_id /\ st[i].name = name
    ELSE 0

\* TextMacro.get(guild_id, name): the record or None.
Get(st, guild_id, name) ==
    IF Find(st, guild_id, name) = 0 THEN None ELSE st[Find(st, guild_id, name)]

\* TextMacro.get_all(None): every macro of every guild.
GetAll(st) == st

\* TextMacro.add(...): a new record with counter 0, appended.
StoreAdd(st, guild_id, name, tr, rs, dm, delete_trigger, sensitive, match, channels, users) ==
    Append(st, [guild_id |-> guild_id, name |-> name, triggers |-> tr,
                responses |-> rs, dm |-> dm, delete_trigger |-> delete_trigger,
                sensitive |-> sensitive, match |-> match,
                channels |-> channels, users |-> users, counter |-> 0])

\* macro.update(**fields): only the supplied fields change.
StoreUpdate(st, guild_id, name, fields) ==
    LET p == Find(st, guild_id, name)
    IN  [st EXCEPT ![p] = [f \in DOMAIN st[p] |->
                              IF f \in DOMAIN fields THEN fields[f] ELSE st[p][f]]]

\* TextMacro.remove(guild_id, name): the table without the record.
StoreRemove(st, guild_id, name) ==
    LET p == Find(st, guild_id, name)
    IN  IF p = 0 THEN st
        ELSE [i \in 1..(Len(st) - 1) |-> IF i < p THEN st[i] ELSE st[i + 1]]

\* The count TextMacro.remove returns.
RemovedCount(st, guild_id, name) == IF Find(st, guild_id, name) = 0 THEN 0 ELSE 1

\* macro.bump(): counter + 1.
Bump(st, guild_id, name) ==
    LET p == Find(st, guild_id, name)
    IN  [st EXCEPT ![p].counter = @ + 1]

(***************************************************************************)
(* The trigger index (self._triggers): per guild, a dict from lowercased   *)
(* trigger text to macro name.  A dict is a sequence of [k, v] entries in  *)
(* insertion order; assigning an existing key keeps its position.          *)
(***************************************************************************)
DictHas(d, k) == \E i \in 1..Len(d) : d[i].k = k

DictSet(d, k, v) ==
    IF DictHas(d, k)
    THEN [i \in 1..Len(d) |-> IF d[i].k = k THEN [k |-> k, v |-> v] ELSE d[i]]
    ELSE Append(d, [k |-> k, v |-> v])

\* d.update(other)
RECURSIVE DictUpdate(_, _)
DictUpdate(d, other) ==
    IF other = <<>> THEN d
    ELSE DictUpdate(DictSet(d, Head(other).k, Head(other).v), Tail(other))

\* {t.text.lower(): macro.name for t in macro.triggers}
RECURSIVE MacroTriggersFrom(_, _, _)
MacroTriggersFrom(d, name, tr) ==
    IF tr = <<>> THEN d
    ELSE MacroTriggersFrom(DictSet(d, Lower(Head(tr)), name), name, Tail(tr))

MacroTriggers(macro) == MacroTriggersFrom(<<>>, macro.name, macro.triggers)

\* The loop of _refresh_triggers over TextMacro.get_all(None); idx is the
\* defaultdict(dict) under construction, a function on the guilds seen so far.
RECURSIVE RefreshFrom(_, _)
RefreshFrom(idx, macros) ==
    IF macros = <<>> THEN idx
    ELSE LET m == Head(macros)
             old == IF m.guild_id \in DOMAIN idx THEN idx[m.guild_id] ELSE <<>>
             new == DictUpdate(old, MacroTriggers(m))
         IN  RefreshFrom([g \in DOMAIN idx \cup {m.guild_id} |->
                             IF g = m.guild_id THEN new ELSE idx[g]],
                         Tail(macros))

\* A rebuild that gives every guild an entry, empty for a guild without
\* macros.
RefreshTriggersEveryGuild(st) ==
    [g \in Guilds |-> IF g \in DOMAIN RefreshFrom(<<>>, GetAll(st))
                      THEN RefreshFrom(<<>>, GetAll(st))[g]
                      ELSE <<>>]

\* _refresh_triggers(): the value assigned to self._triggers.
RefreshTriggers(st) == RefreshFrom(<<>>, GetAll(st))

(***************************************************************************)
(* The match engine: _process_macro up to macro.bump().                    *)
(***************************************************************************)
\* The values of a list.
Values(list) == {list[i] : i \in 1..Len(list)}

\* The scan with START tested as ANY is ("trigger in content").
RECURSIVE TriggerScanStartAsAny(_, _, _)
TriggerScanStartAsAny(match, trs, content) ==
    IF trs = <<>> THEN FALSE
    ELSE LET trigger == Head(trs)
         IN  IF match = "FULL" /\ trigger = content THEN TRUE
             ELSE IF match = "START" /\ Contains(content, trigger) THEN TRUE
             ELSE IF match = "END" /\ EndsWith(content, trigger) THEN TRUE
             ELSE IF match = "ANY" /\ Contains(content, trigger) THEN TRUE
             ELSE TriggerScanStartAsAny(match, Tail(trs), content)

\* The scan with a last branch that takes every other mode as ANY.
RECURSIVE TriggerScanOtherAsAny(_, _, _)
TriggerScanOtherAsAny(match, trs, content) ==
    IF trs = <<>> THEN FALSE
    ELSE LET trigger == Head(trs)
         IN  IF match = "FULL" /\ trigger = content THEN TRUE
             ELSE IF match = "START" /\ StartsWith(content, trigger) THEN TRUE
             ELSE IF match = "END" /\ EndsWith(content, trigger) THEN TRUE
             ELSE IF match \notin {"FULL", "START", "END"} /\ Contains(content, trigger)
                  THEN TRUE
             ELSE TriggerScanOtherAsAny(match, Tail(trs), content)

\* The for/else scan over macro_dump["triggers"]: TRUE on a break, FALSE when
\* the else branch returns.
RECURSIVE TriggerScan(_, _, _)
TriggerScan(match, trs, content) ==
    IF trs = <<>> THEN FALSE
    ELSE LET trigger == Head(trs)
         IN  IF match = "FULL" /\ trigger = content THEN TRUE
             ELSE IF match = "START" /\ StartsWith(content, trigger) THEN TRUE
             ELSE IF match = "END" /\ EndsWith(content, trigger) THEN TRUE
             ELSE IF match = "ANY" /\ Contains(content, trigger) THEN TRUE
             ELSE TriggerScan(match, Tail(trs), content)

\* The scan on the literal strings, whatever macro.sensitive says.
TriggerTestLiteral(macro, raw) ==
    TriggerScan(macro.match, macro.triggers, raw)

\* Normalisation (both lowercased unless macro.sensitive), then the scan.
TriggerTest(macro, raw) ==
    IF ~macro.sensitive
    THEN TriggerScan(macro.match,
                     [i \in 1..Len(macro.triggers) |-> Lower(macro.triggers[i])],
                     Lower(raw))
    ELSE TriggerScan(macro.match, macro.triggers, raw)

\* _process_macro without the channel filter.
ProcessMacroNoChannelFilter(st, message, macro_name) ==
    LET p == Find(st, message.guild, macro_name)
        macro == st[p]
    IN  IF p = 0 THEN [exit |-> "not_found", store |-> st]
        ELSE IF ~TriggerTest(macro, message.content)
             THEN [exit |-> "no_trigger", store |-> st]
        ELSE IF macro.users # <<>> /\ message.author \notin Values(macro.users)
             THEN [exit |-> "user", store |-> st]
        ELSE [exit |-> "fired", store |-> Bump(st, message.guild, macro_name)]

\* _process_macro with macro.bump() moved before the filtering.
ProcessMacroBumpBeforeFilter(st, message, macro_name) ==
    LET p == Find(st, message.guild, macro_name)
        macro == st[p]
    IN  IF p = 0 THEN [exit |-> "not_found", store |-> st]
        ELSE IF ~TriggerTest(macro, message.content)
             THEN [exit |-> "no_trigger", store |-> st]
        ELSE IF macro.channels # <<>> /\ message.channel \notin Values(macro.channels)
             THEN [exit |-> "channel", store |-> Bump(st, message.guild, macro_name)]
        ELSE IF macro.users # <<>> /\ message.author \notin Values(macro.users)
             THEN [exit |-> "user", store |-> Bump(st, message.guild, macro_name)]
        ELSE [exit |-> "fired", store |-> Bump(st, message.guild, macro_name)]

\* _process_macro from TextMacro.get to macro.bump(): the exit taken and the
\* store afterwards.  "not_found" is the return after guild_log.error,
\* "no_trigger" the else branch of the scan, "channel" and "user" the two
\* filtering returns, "fired" the path that goes on to bump, delete and send.
ProcessMacro(st, message, macro_name) ==
    LET p == Find(st, message.guild, macro_name)
        macro == st[p]
    IN  IF p = 0 THEN [exit |-> "not_found", store |-> st]
        ELSE IF ~TriggerTest(macro, message.content)
             THEN [exit |-> "no_trigger", store |-> st]
        ELSE IF macro.channels # <<>> /\ message.channel \notin Values(macro.channels)
             THEN [exit |-> "channel", store |-> st]
        ELSE IF macro.users # <<>> /\ message.author \notin Values(macro.users)
             THEN [exit |-> "user", store |-> st]
        ELSE [exit |-> "fired", store |-> Bump(st, message.guild, macro_name)]

(***************************************************************************)
(* The dispatcher: on_message.  The coroutine runs without interruption    *)
(* from one await that really suspends to the next: guild_log.error (a     *)
(* candidate that is not in the store), utils.discord.delete_message, and  *)
(* message.author.send / message.reply.                                    *)
(***************************************************************************)
NoMacro == [name |-> None, responses |-> <<>>, dm |-> FALSE, delete_trigger |-> FALSE,
            object_dm |-> FALSE, attached |-> FALSE]

\* What the coroutine keeps of the macro it loaded (macro, macro_dump).
Loaded(macro) == [name |-> macro.name, responses |-> macro.responses,
                  dm |-> macro.dm, delete_trigger |-> macro.delete_trigger,
                  object_dm |-> macro.dm, attached |-> TRUE]

\* The coroutine is suspended in delete_message holding the object that is
\* stored under (guild_id, name).  If TextMacro.get hands out the stored
\* object, a command on that macro reaches the object in the coroutine's
\* hand: object_dm is the object's dm as it is now, attached whether the
\* object is still the stored one; dm is its value when it was loaded, which
\* is what a store that hands out copies keeps.
HoldsObject(t, guild_id, name) ==
    /\ t.pc = "delete"
    /\ t.macro.attached
    /\ t.msg.guild = guild_id
    /\ t.macro.name = name

\* macro.update(**fields) seen by a coroutine that holds the object.
UpdateHeld(t, guild_id, name, fields) ==
    IF HoldsObject(t, guild_id, name) /\ "dm" \in DOMAIN fields
    THEN [t EXCEPT !.macro.object_dm = fields.dm]
    ELSE t

\* TextMacro.remove seen by a coroutine that holds the object: the object
\* is no longer the stored one.
RemoveHeld(t, guild_id, name) ==
    IF HoldsObject(t, guild_id, name)
    THEN [t EXCEPT !.macro.attached = FALSE]
    ELSE t

\* "if macro.dm" after a suspension: the value when the macro was loaded, or
\* the value of the object now.
DmRead(t) == {t.macro.dm, t.macro.object_dm}

\* The macro in hand once macro.dm has been read.
WithDm(macro, dm) == [macro EXCEPT !.dm = dm, !.object_dm = dm, !.attached = TRUE]

NoMessage == [guild |-> 0, channel |-> 0, author |-> 0, bot |-> FALSE, content |-> <<>>]

IdleTask == [pc |-> "idle", msg |-> NoMessage, cands |-> <<>>, macro |-> NoMacro,
             fired |-> <<>>, exits |-> <<>>, deleted |-> <<>>, sent |-> <<>>,
             result |-> "none"]

\* get_potential_macros(): the names whose trigger is in the lowercased
\* content, in the order of the guild's dict.
RECURSIVE GetPotentialMacros(_, _)
GetPotentialMacros(d, content) ==
    IF d = <<>> THEN <<>>
    ELSE IF Contains(content, Head(d).k)
         THEN <<Head(d).v>> \o GetPotentialMacros(Tail(d), content)
         ELSE GetPotentialMacros(Tail(d), content)

\* The guild of the first stored macro with this name, whatever its guild.
GuildOfName(st, name, default) ==
    IF \E i \in 1..Len(st) : st[i].name = name
    THEN st[CHOOSE i \in 1..Len(st) :
                /\ st[i].name = name
                /\ \A j \in 1..(i - 1) : st[j].name # name].guild_id
    ELSE default

\* The loop with the macro looked up by its name alone.
RECURSIVE DispatchLoopAnyGuild(_, _, _, _)
DispatchLoopAnyGuild(st, message, cands, exits) ==
    IF cands = <<>>
    THEN [pc |-> "done", store |-> st, cands |-> <<>>, macro |-> NoMacro, exits |-> exits]
    ELSE LET macro_name == Head(cands)
             anywhere == [message EXCEPT !.guild = GuildOfName(st, macro_name, @)]
             r == ProcessMacro(st, anywhere, macro_name)
             seen == Append(exits, [name |-> macro_name, exit |-> r.exit])
         IN  IF r.exit = "not_found"
             THEN [pc |-> "log_error", store |-> r.store, cands |-> Tail(cands),
                   macro |-> [NoMacro EXCEPT !.name = macro_name], exits |-> seen]
             ELSE IF r.exit = "fired"
             THEN LET macro == Get(st, anywhere.guild, macro_name)
                  IN  [pc |-> IF macro.delete_trigger THEN "delete" ELSE "send",
                       store |-> r.store, cands |-> Tail(cands),
                       macro |-> Loaded(macro), exits |-> seen]
             ELSE DispatchLoopAnyGuild(r.store, message, Tail(cands), seen)

\* The for-loop of on_message over the remaining candidates, up to the next
\* suspension: where the coroutine stands, the candidates left, the macro in
\* hand, the store, and the names evaluated with the exit each took.
RECURSIVE DispatchLoop(_, _, _, _)
DispatchLoop(st, message, cands, exits) ==
    IF cands = <<>>
    THEN [pc |-> "done", store |-> st, cands |-> <<>>, macro |-> NoMacro, exits |-> exits]
    ELSE LET macro_name == Head(cands)
             r == ProcessMacro(st, message, macro_name)
             seen == Append(exits, [name |-> macro_name, exit |-> r.exit])
         IN  IF r.exit = "not_found"
             THEN [pc |-> "log_error", store |-> r.store, cands |-> Tail(cands),
                   macro |-> [NoMacro EXCEPT !.name = macro_name], exits |-> seen]
             ELSE IF r.exit = "fired"
             THEN LET macro == Get(st, message.guild, macro_name)
                  IN  [pc |-> IF macro.delete_trigger THEN "delete" ELSE "send",
                       store |-> r.store, cands |-> Tail(cands),
                       macro |-> Loaded(macro), exits |-> seen]
             ELSE DispatchLoop(r.store, message, Tail(cands), seen)

\* The loop left at the first candidate that did not fire.
LoopAfterAlwaysBreak(triggered, st, message, cands, exits) ==
    [pc |-> "done", store |-> st, cands |-> cands, macro |-> NoMacro, exits |-> exits]

\* The loop without its break: the candidates left are evaluated after a fire.
LoopAfterNoBreak(triggered, st, message, cands, exits) ==
    DispatchLoop(st, message, cands, exits)

\* "triggered = await self._process_macro(...); if triggered: break"
LoopAfter(triggered, st, message, cands, exits) ==
    IF triggered
    THEN [pc |-> "done", store |-> st, cands |-> cands, macro |-> NoMacro, exits |-> exits]
    ELSE DispatchLoop(st, message, cands, exits)

\* The evaluations that went on to macro.bump(), and their macros' names.
Fired(exits) == SelectSeq(exits, LAMBDA e : e.exit = "fired")

FiredNames(exits) == [i \in 1..Len(Fired(exits)) |-> Fired(exits)[i].name]

\* The task when on_message has ended: nothing of the message is kept but
\* how it ended ("returned", or "raised" for an exception that left it) and
\* what was delivered.
Ended(result, sent) == [IdleTask EXCEPT !.result = result, !.sent = sent]

\* The task after a run of the loop.
Resume(t, r) ==
    IF r.pc = "done" THEN Ended("returned", t.sent)
    ELSE [t EXCEPT !.pc = r.pc, !.cands = r.cands, !.macro = r.macro,
                   !.exits = r.exits, !.fired = FiredNames(r.exits)]

CountersBelow(st, n) == \A i \in 1..Len(st) : st[i].counter < n

\* The task when on_message has returned at once; of the message it keeps
\* whether a bot wrote it.
Ignored(message) == [Ended("returned", <<>>) EXCEPT !.msg.bot = message.bot]

\* on_message without the return for a message written by a bot.
OnMessageNoBotCheck(message) ==
    /\ task.pc = "idle"
    /\ CountersBelow(store, MaxCounter)
    /\ LET fresh == [IdleTask EXCEPT !.msg = message]
       IN  IF message.guild \notin DOMAIN triggers
           THEN /\ task' = Ignored(message)
                /\ store' = store
           ELSE LET content == Lower(message.content)
                    cands == GetPotentialMacros(triggers[message.guild], content)
                    r == DispatchLoop(store, message, cands, <<>>)
                IN  /\ task' = Resume(fresh, r)
                    /\ store' = r.store
    /\ UNCHANGED <<triggers, cmd>>

\* on_message(message), from its start to its first suspension or its end.
OnMessage(message) ==
    /\ task.pc = "idle"
    /\ CountersBelow(store, MaxCounter)
    /\ LET fresh == [IdleTask EXCEPT !.msg = message]
       IN  IF message.bot \/ message.guild \notin DOMAIN triggers
           THEN /\ task' = Ignored(message)
                /\ store' = store
           ELSE LET content == Lower(message.content)
                    cands == GetPotentialMacros(triggers[message.guild], content)
                    r == DispatchLoop(store, message, cands, <<>>)
                IN  /\ task' = Resume(fresh, r)
                    /\ store' = r.store
    /\ UNCHANGED <<triggers, cmd>>

\* The loop taking its candidates anew from self._triggers when it resumes.
LogErrorReturnRereadsIndex ==
    /\ task.pc = "log_error"
    /\ IF task.msg.guild \in DOMAIN triggers
       THEN LET cands == GetPotentialMacros(triggers[task.msg.guild],
                                            Lower(task.msg.content))
                r == LoopAfter(FALSE, store, task.msg, cands, task.exits)
            IN  /\ task' = Resume(task, r)
                /\ store' = r.store
       ELSE /\ task' = Ended("raised", task.sent)
            /\ store' = store
    /\ UNCHANGED <<triggers, cmd>>

\* guild_log.error returns: _process_macro returns False, the loop goes on.
LogErrorReturn ==
    /\ task.pc = "log_error"
    /\ LET r == LoopAfter(FALSE, store, task.msg, task.cands, task.exits)
       IN  /\ task' = Resume(task, r)
           /\ store' = r.store
    /\ UNCHANGED <<triggers, cmd>>

\* A failed deletion taken as an exception that leaves on_message.
DeleteReturnFailureRaises(ok) ==
    /\ task.pc = "delete"
    /\ \E dm \in DmRead(task) :
          task' = IF ok THEN [task EXCEPT !.pc = "send", !.deleted = Append(@, ok),
                                          !.macro = WithDm(@, dm)]
                        ELSE Ended("raised", task.sent)
    /\ UNCHANGED <<store, triggers, cmd>>

\* utils.discord.delete_message returns (its result is not looked at), and
\* macro.dm is read for the send.
DeleteReturn(ok) ==
    /\ task.pc = "delete"
    /\ \E dm \in DmRead(task) :
          task' = [task EXCEPT !.pc = "send", !.deleted = Append(@, ok),
                               !.macro = WithDm(@, dm)]
    /\ UNCHANGED <<store, triggers, cmd>>

\* A failed delivery taken as "not triggered": the loop goes on with the
\* candidates left.
SendReturnFailureContinues(ok, response) ==
    /\ task.pc = "send"
    /\ response \in Values(task.macro.responses)
    /\ LET sent == IF ok
                   THEN Append(task.sent, [how |-> IF task.macro.dm THEN "dm" ELSE "reply",
                                           response |-> response])
                   ELSE task.sent
           r == LoopAfter(ok, store, task.msg, task.cands, task.exits)
       IN  /\ task' = Resume([task EXCEPT !.sent = sent], r)
           /\ store' = r.store
    /\ UNCHANGED <<triggers, cmd>>

\* message.author.send / message.reply returns, or raises.  The response was
\* picked by random.choice from the dumped responses.
SendReturn(ok, response) ==
    /\ task.pc = "send"
    /\ response \in Values(task.macro.responses)
    /\ IF ok
       THEN LET sent == Append(task.sent, [how |-> IF task.macro.dm THEN "dm" ELSE "reply",
                                           response |-> response])
                r == LoopAfter(TRUE, store, task.msg, task.cands, task.exits)
            IN  /\ task' = Resume([task EXCEPT !.sent = sent], r)
                /\ store' = r.store
       ELSE /\ task' = Ended("raised", task.sent)
            /\ store' = store
    /\ UNCHANGED <<triggers, cmd>>

(***************************************************************************)
(* The management commands.  The parameters of a command are the tokens of *)
(* shlex.split(parameters) grouped by option: for each option whether it   *)
(* was given and the values that follow it.                                *)
(***************************************************************************)
Absent == [given |-> FALSE, vals |-> <<>>]

Opt(vals) == [given |-> TRUE, vals |-> vals]

NoParams == [triggers |-> Absent, responses |-> Absent, dm |-> Absent,
             delete_trigger |-> Absent, sensitive |-> Absent, match |-> Absent,
             channels |-> Absent, users |-> Absent]

BoolFields == {"dm", "delete_trigger", "sensitive"}
ListFields == {"triggers", "responses"}
IdFields == {"channels", "users"}
Fields == ListFields \cup BoolFields \cup {"match"} \cup IdFields

\* argparse's type=bool: bool(token), which is True for every non-empty token.
PyBool(token) == token # ""

\* MacroParser.parse_args fails (error_message is set, None is returned):
\* nargs="+" without a value, a one-value option without its value, or a
\* --match outside the choices.
ParseError(params) ==
    \/ \E f \in ListFields : params[f].given /\ params[f].vals = <<>>
    \/ \E f \in BoolFields \cup {"match"} : params[f].given /\ params[f].vals = <<>>
    \/ params.match.given /\ params.match.vals # <<>>
         /\ params.match.vals[1] \notin MatchNames

\* The attributes of the namespace that are not None.  nargs="?" without a
\* value yields None, as an option that was not given does.
Present(params) ==
    {f \in Fields : params[f].given /\ params[f].vals # <<>>}

\* _parse_macro_parameters: the namespace, or error.  An attribute outside
\* "present" is None; its value here stands for nothing.
ParseMacroParameters(params) ==
    [error |-> ParseError(params),
     present |-> IF ParseError(params) THEN {} ELSE Present(params),
     triggers |-> params.triggers.vals,
     responses |-> params.responses.vals,
     dm |-> params.dm.vals # <<>> /\ PyBool(params.dm.vals[1]),
     delete_trigger |-> params.delete_trigger.vals # <<>> /\ PyBool(params.delete_trigger.vals[1]),
     sensitive |-> params.sensitive.vals # <<>> /\ PyBool(params.sensitive.vals[1]),
     match |-> IF params.match.vals # <<>> THEN params.match.vals[1] ELSE None,
     channels |-> IF params.channels.vals # <<>> THEN <<params.channels.vals[1]>> ELSE <<>>,
     users |-> IF params.users.vals # <<>> THEN <<params.users.vals[1]>> ELSE <<>>]

IdleCmd == [pc |-> "idle", op |-> "none", guild |-> 0, name |-> None,
            params |-> NoParams, text |-> "none", final |-> FALSE]

\* The command coroutine: where it stands, the command and its arguments,
\* the text of its reply, and whether it returns after the reply.

\* A command that replies and returns.
Rejecting(op, guild, name, params, text) ==
    [pc |-> "reply", op |-> op, guild |-> guild, name |-> name, params |-> params,
     text |-> text, final |-> TRUE]

\* A command that changed the store and goes on to reply, log and refresh.
Mutating(op, guild, name, params, text) ==
    [pc |-> "reply", op |-> op, guild |-> guild, name |-> name, params |-> params,
     text |-> text, final |-> FALSE]

\* The check of the required arguments without --match.
MissingRequiredButMatch(args) ==
    \E f \in {"triggers", "responses"} : f \notin args.present

\* "for arg in (match, triggers, responses): if not getattr(args, arg, None)"
MissingRequired(args) ==
    \E f \in {"match", "triggers", "responses"} : f \notin args.present

\* macro_add up to its first await ctx.reply.
MacroAdd(guild_id, name, params) ==
    /\ cmd.pc = "idle"
    /\ LET args == ParseMacroParameters(params)
       IN  IF Find(store, guild_id, name) # 0
           THEN /\ cmd' = Rejecting("add", guild_id, name, params, "already exists")
                /\ store' = store
           ELSE IF args.error
           THEN /\ cmd' = Rejecting("add", guild_id, name, params, "could not be added")
                /\ store' = store
           ELSE IF MissingRequired(args)
           THEN /\ cmd' = Rejecting("add", guild_id, name, params, "must be specified")
                /\ store' = store
           ELSE /\ Len(store) < MaxMacros
                /\ store' = StoreAdd(store, guild_id, name, args.triggers, args.responses,
                                     "dm" \in args.present /\ args.dm,
                                     "delete_trigger" \in args.present /\ args.delete_trigger,
                                     "sensitive" \in args.present /\ args.sensitive,
                                     args.match, args.channels, args.users)
                /\ cmd' = Mutating("add", guild_id, name, params, "created")
    /\ UNCHANGED <<triggers, task>>

\* filtered_args: the attributes that are not None, with their values.
FilteredArgs(args) == [f \in args.present |-> args[f]]

\* macro_update up to its first await ctx.reply.
MacroUpdate(guild_id, name, params) ==
    /\ cmd.pc = "idle"
    /\ LET args == ParseMacroParameters(params)
       IN  IF Find(store, guild_id, name) = 0
           THEN /\ cmd' = Rejecting("update", guild_id, name, params, "does not exist")
                /\ store' = store
           ELSE IF args.error
           THEN /\ cmd' = Rejecting("update", guild_id, name, params, "could not be added")
                /\ store' = store
           ELSE IF DOMAIN FilteredArgs(args) = {}
           THEN /\ cmd' = Rejecting("update", guild_id, name, params, "no arguments")
                /\ store' = store
           ELSE /\ store' = StoreUpdate(store, guild_id, name, FilteredArgs(args))
                /\ cmd' = Mutating("update", guild_id, name, params, "updated")
    /\ task' = IF Find(store, guild_id, name) # 0
                   /\ ~ParseMacroParameters(params).error
               THEN UpdateHeld(task, guild_id, name,
                               FilteredArgs(ParseMacroParameters(params)))
               ELSE task
    /\ UNCHANGED triggers

\* macro_remove without the "removed == 0" return.
MacroRemoveNoCheck(guild_id, name) ==
    /\ cmd.pc = "idle"
    /\ store' = StoreRemove(store, guild_id, name)
    /\ cmd' = Mutating("remove", guild_id, name, NoParams, "removed")
    /\ task' = RemoveHeld(task, guild_id, name)
    /\ UNCHANGED triggers

\* macro_remove up to its first await ctx.reply.
MacroRemove(guild_id, name) ==
    /\ cmd.pc = "idle"
    /\ IF RemovedCount(store, guild_id, name) = 0
       THEN /\ cmd' = Rejecting("remove", guild_id, name, NoParams, "does not exist")
            /\ store' = store
       ELSE /\ store' = StoreRemove(store, guild_id, name)
            /\ cmd' = Mutating("remove", guild_id, name, NoParams, "removed")
    /\ task' = RemoveHeld(task, guild_id, name)
    /\ UNCHANGED triggers

\* The command after its ctx.reply: the exception leaves the command, a
\* rejection returns, a mutation goes on to guild_log.info.
AfterReply(c, ok) ==
    IF ~ok \/ c.final THEN IdleCmd ELSE [c EXCEPT !.pc = "log"]

\* ctx.reply returns, or raises.
CmdReplyReturn(ok) ==
    /\ cmd.pc = "reply"
    /\ cmd' = AfterReply(cmd, ok)
    /\ UNCHANGED <<store, triggers, task>>

\* The rebuild publishing the index after the first macro of the store only.
CmdLogReturnPartial ==
    /\ cmd.pc = "log"
    /\ triggers' = RefreshFrom(<<>>, SubSeq(GetAll(store), 1, 1))
    /\ cmd' = IdleCmd
    /\ UNCHANGED <<store, task>>

\* guild_log.info returns; self._refresh_triggers() and the command ends.
CmdLogReturn ==
    /\ cmd.pc = "log"
    /\ triggers' = RefreshTriggers(store)
    /\ cmd' = IdleCmd
    /\ UNCHANGED <<store, task>>

(***************************************************************************)
(* The inputs of the specification Spec.                                   *)
(***************************************************************************)
\* Inbound messages.
Contents == {<<"a">>, <<"A", "b">>}

Messages ==
    {[guild |-> 1, channel |-> c, author |-> 7, bot |-> FALSE, content |-> s] :
        c \in ChannelIds, s \in Contents}
    \cup {[guild |-> 1, channel |-> 42, author |-> 8, bot |-> FALSE, content |-> <<"A", "b">>],
          [guild |-> 2, channel |-> 42, author |-> 7, bot |-> FALSE, content |-> <<"A", "b">>],
          [guild |-> 1, channel |-> 42, author |-> 7, bot |-> TRUE, content |-> <<"A", "b">>]}

\* The (guild, name) pairs the commands are issued for.
CmdKeys == {<<1, "m1">>, <<1, "m2">>}

\* Parameters of "macro add": a macro that answers by direct message, a
\* macro with every other option set whose first trigger lowercases to the
\* first macro's, one without --match, one with a --match outside the
\* choices.
AddParams ==
    { [NoParams EXCEPT !.triggers = Opt(<< <<"a">> >>), !.responses = Opt(<<"r1">>),
                       !.match = Opt(<<"ANY">>), !.dm = Opt(<<"True">>)],
      [NoParams EXCEPT !.triggers = Opt(<< <<"A">>, <<"b">> >>),
                       !.responses = Opt(<<"r1", "r2">>),
                       !.match = Opt(<<"END">>), !.sensitive = Opt(<<"1">>),
                       !.delete_trigger = Opt(<<"1">>),
                       !.channels = Opt(<<42>>), !.users = Opt(<<7>>)],
      [NoParams EXCEPT !.triggers = Opt(<< <<"a">> >>), !.responses = Opt(<<"r1">>)],
      [NoParams EXCEPT !.triggers = Opt(<< <<"a">> >>), !.responses = Opt(<<"r1">>),
                       !.match = Opt(<<"full">>)] }

\* Parameters of "macro update": --dm False, --channels without a value,
\* --triggers without a value, and no option at all.
UpdateParams ==
    { [NoParams EXCEPT !.dm = Opt(<<"False">>)],
      [NoParams EXCEPT !.channels = Opt(<<>>)],
      [NoParams EXCEPT !.triggers = Opt(<<>>)],
      NoParams }

(***************************************************************************)
(* The specification: the cog after __init__ on an empty store, inbound    *)
(* messages and management commands interleaved at their awaits.           *)
(***************************************************************************)
Init ==
    /\ store = <<>>
    /\ triggers = RefreshTriggers(store)
    /\ task = IdleTask
    /\ cmd = IdleCmd

Next ==
    \/ \E m \in Messages : OnMessage(m)
    \/ LogErrorReturn
    \/ \E ok \in BOOLEAN : DeleteReturn(ok)
    \/ \E ok \in BOOLEAN, r \in {"r1", "r2"} : SendReturn(ok, r)
    \/ \E k \in CmdKeys, p \in AddParams : MacroAdd(k[1], k[2], p)
    \/ \E k \in CmdKeys, p \in UpdateParams : MacroUpdate(k[1], k[2], p)
    \/ \E k \in CmdKeys : MacroRemove(k[1], k[2])
    \/ \E ok \in BOOLEAN : CmdReplyReturn(ok)
    \/ CmdLogReturn

Spec == Init /\ [][Next]_vars

(***************************************************************************)
(* The match engine on its own: _process_macro called on a store of one    *)
(* macro, for every macro and message within the bounds.                   *)
(***************************************************************************)
TriggerLists ==
    UNION {[1..n -> StringsOf(1, MaxTrigLen)] : n \in 1..MaxTriggers}

MatchMacros ==
    {[guild_id |-> 1, name |-> "m1", triggers |-> tr, responses |-> <<"r1">>,
      dm |-> FALSE, delete_trigger |-> FALSE, sensitive |-> s, match |-> m,
      channels |-> ch, users |-> us, counter |-> 0] :
        tr \in TriggerLists, s \in BOOLEAN, m \in MatchNames,
        ch \in {<<>>, <<42>>}, us \in {<<>>, <<7>>}}

MatchMessages ==
    {[guild |-> 1, channel |-> c, author |-> u, bot |-> FALSE, content |-> s] :
        c \in ChannelIds, u \in UserIds, s \in StringsOf(0, MaxMsgLen)}

\* _process_macro(message, macro_name) called directly, up to its first
\* suspension or its return.
ProcessMacroCall(message, macro_name) ==
    /\ task.pc = "idle"
    /\ CountersBelow(store, MaxCounter)
    /\ LET r == DispatchLoop(store, message, <<macro_name>>, <<>>)
           called == [IdleTask EXCEPT !.msg = message]
       IN  /\ task' = IF r.pc = "done"
                      THEN [called EXCEPT !.pc = "done", !.exits = r.exits,
                                          !.result = "returned"]
                      ELSE Resume(called, r)
           /\ store' = r.store
    /\ UNCHANGED <<triggers, cmd>>

InitMatch ==
    /\ store \in {<<m>> : m \in MatchMacros}
    /\ triggers = RefreshTriggers(store)
    /\ task = IdleTask
    /\ cmd = IdleCmd

NextMatch ==
    \/ \E m \in MatchMessages, n \in Names : ProcessMacroCall(m, n)
    \/ LogErrorReturn
    \/ \E ok \in BOOLEAN, r \in {"r1", "r2"} : SendReturn(ok, r)

SpecMatch == InitMatch /\ [][NextMatch]_vars

(***************************************************************************)
(* The dispatcher on stores of two guilds: macros of either guild with the *)
(* same names and triggers, some with a match mode outside MacroMatch,     *)
(* messages of either guild, and removals that leave the index stale.      *)
(***************************************************************************)
\* A match mode that is none of FULL, START, END, ANY.
OtherMatch == "REGEX"

\* The response of a guild's macros.
ResponseOf(guild_id) == IF guild_id = 1 THEN "r1" ELSE "r2"

DispatchMacros ==
    {[guild_id |-> g, name |-> n, triggers |-> <<t>>, responses |-> <<ResponseOf(g)>>,
      dm |-> FALSE, delete_trigger |-> FALSE, sensitive |-> FALSE, match |-> m,
      channels |-> <<>>, users |-> <<>>, counter |-> 0] :
        g \in Guilds, n \in Names, t \in {<<"a">>, <<"b">>}, m \in {"ANY", OtherMatch}}

\* Two macros with different (guild_id, name).
DispatchStores ==
    {st \in {<<x, y>> : x \in DispatchMacros, y \in DispatchMacros} :
        ~(st[1].guild_id = st[2].guild_id /\ st[1].name = st[2].name)}

DispatchMessages ==
    {[guild |-> g, channel |-> 42, author |-> 7, bot |-> FALSE, content |-> s] :
        g \in Guilds, s \in {<<"a">>, <<"A", "b">>}}

InitDispatch ==
    /\ store \in DispatchStores
    /\ triggers = RefreshTriggers(store)
    /\ task = IdleTask
    /\ cmd = IdleCmd

NextDispatch ==
    \/ \E m \in DispatchMessages : OnMessage(m)
    \/ LogErrorReturn
    \/ \E ok \in BOOLEAN, r \in {"r1", "r2"} : SendReturn(ok, r)
    \/ \E g \in Guilds, n \in Names : MacroRemove(g, n)
    \/ \E ok \in BOOLEAN : CmdReplyReturn(ok)
    \/ CmdLogReturn

SpecDispatch == InitDispatch /\ [][NextDispatch]_vars

(***************************************************************************)
(* What the specification asks of a match, stated apart from the code:     *)
(* prefixes, suffixes and infixes by SubSeq, the modes by cases.           *)
(***************************************************************************)
IsPrefix(t, c) == Len(t) <= Len(c) /\ SubSeq(c, 1, Len(t)) = t

IsSuffix(t, c) == Len(t) <= Len(c) /\ SubSeq(c, Len(c) - Len(t) + 1, Len(c)) = t

IsInfix(t, c) ==
    \E lo \in 1..(Len(c) + 1) : \E hi \in (lo - 1)..Len(c) : SubSeq(c, lo, hi) = t

Norm(sensitive, s) == IF sensitive THEN s ELSE Lower(s)

ModeHolds(match, t, c) ==
    \/ match = "FULL" /\ t = c
    \/ match = "START" /\ IsPrefix(t, c)
    \/ match = "END" /\ IsSuffix(t, c)
    \/ match = "ANY" /\ IsInfix(t, c)

TriggerMatches(macro, content) ==
    \E i \in 1..Len(macro.triggers) :
        ModeHolds(macro.match, Norm(macro.sensitive, macro.triggers[i]),
                  Norm(macro.sensitive, content))

InScope(macro, message) ==
    /\ macro.channels = <<>> \/ message.channel \in Values(macro.channels)
    /\ macro.users = <<>> \/ message.author \in Values(macro.users)

ShouldFire(macro, message) == TriggerMatches(macro, message.content) /\ InScope(macro, message)

\* The macro of the message's guild with this name is stored and should fire.
StoredShouldFire(st, message, name) ==
    /\ Find(st, message.guild, name) # 0
    /\ ShouldFire(st[Find(st, message.guild, name)], message)

\* The coroutine stands after a macro.bump(), before the delivery.
Delivering(t) == t.pc \in {"delete", "send"}

\* This step of the dispatcher bumped a macro.
FireStep == ~Delivering(task) /\ Delivering(task')

(***************************************************************************)
(* C1. Handling one message fires at most one macro: at most one counter   *)
(* is bumped and at most one response delivered for it, and a response is  *)
(* delivered only after a macro fired.                                     *)
(***************************************************************************)
C1_AtMostOneFire ==
    [][/\ Len(task'.fired) <= 1
       /\ Len(task'.sent) <= 1
       /\ (task'.sent # task.sent /\ task'.sent # <<>>)
            => (task.pc = "send" /\ Len(task.fired) = 1 /\ task.sent = <<>>)
       /\ Delivering(task') => Len(task'.fired) = 1]_vars

\* A macro fired while a candidate that would fire as well is left.
C1_Witness ==
    /\ task.pc = "send"
    /\ Len(task.fired) = 1
    /\ \E i \in 1..Len(task.cands) :
          /\ task.cands[i] # task.macro.name
          /\ StoredShouldFire(store, task.msg, task.cands[i])

\* The candidate names of a message under the index.
Candidates(idx, m) ==
    IF m.guild \in DOMAIN idx
    THEN Values(GetPotentialMacros(idx[m.guild], Lower(m.content)))
    ELSE {}

\* With the index fresh, a message some macro of its guild should fire for
\* has a candidate that should fire.
SomeCandidateFires ==
    triggers = RefreshTriggers(store) =>
        \A m \in Messages :
            (\E i \in 1..Len(store) : store[i].guild_id = m.guild /\ ShouldFire(store[i], m))
                => \E n \in Candidates(triggers, m) : StoredShouldFire(store, m, n)

(***************************************************************************)
(* C2. With the index freshly rebuilt from the store, every macro of the   *)
(* message's guild that passes the trigger test and the scope test is      *)
(* among the candidates the index lookup yields, also when two macros of   *)
(* the guild share a lowercased trigger; hence if some macro of the guild  *)
(* would fire, one of the candidates would.                                *)
(***************************************************************************)
C2_IndexYieldsEveryMatch ==
    /\ triggers = RefreshTriggers(store) =>
          \A m \in Messages : \A i \in 1..Len(store) :
              (store[i].guild_id = m.guild /\ ShouldFire(store[i], m))
                  => store[i].name \in Candidates(triggers, m)
    /\ SomeCandidateFires

\* A call of _process_macro on the stored macro has been evaluated.
Called == task.exits # <<>> /\ task.exits[1].name = store[1].name

(***************************************************************************)
(* C3. The trigger test of _process_macro succeeds exactly when some       *)
(* trigger satisfies the macro's match mode against the normalized         *)
(* content: FULL equality, START prefix, END suffix, ANY infix.            *)
(***************************************************************************)
C3_TriggerTestByMode ==
    Called =>
        (task.exits[1].exit # "no_trigger" <=> TriggerMatches(store[1], task.msg.content))

\* A FULL macro refused a proper superstring of its trigger.
C3_Witness ==
    /\ Called
    /\ task.exits[1].exit = "no_trigger"
    /\ store[1].match = "FULL"
    /\ \E i \in 1..Len(store[1].triggers) :
          /\ IsInfix(store[1].triggers[i], task.msg.content)
          /\ Len(store[1].triggers[i]) < Len(task.msg.content)

(***************************************************************************)
(* C4. A macro with a non-empty channels set does not fire for a message   *)
(* from a channel outside it, nor one with a non-empty users set for an    *)
(* author outside it: no bump, no deletion, no response.                   *)
(***************************************************************************)
C4_ScopeRespected ==
    (Called /\ ~InScope(store[1], task.msg)) =>
        /\ task.exits[1].exit \in {"no_trigger", "channel", "user"}
        /\ task.pc = "done"
        /\ store[1].counter = 0
        /\ task.deleted = <<>>
        /\ task.sent = <<>>

\* The trigger test passed and the channel was outside the macro's set.
C4_Witness ==
    /\ Called
    /\ TriggerMatches(store[1], task.msg.content)
    /\ store[1].channels # <<>>
    /\ task.msg.channel \notin Values(store[1].channels)
    /\ task.pc = "done"

\* Two records of the same macro.
SameMacro(a, b) == a.guild_id = b.guild_id /\ a.name = b.name

(***************************************************************************)
(* C5. An evaluation bumps the macro's counter by exactly one when the     *)
(* macro fires and leaves every counter alone otherwise; no step lowers    *)
(* or resets the counter of a stored macro.                                *)
(***************************************************************************)
C5_CounterStep ==
    [][/\ \A i \in 1..Len(store) : \A j \in 1..Len(store') :
            SameMacro(store[i], store'[j]) => store'[j].counter >= store[i].counter
       /\ (task' # task /\ cmd' = cmd) =>
            IF FireStep
            THEN /\ StoredShouldFire(store, task'.msg, task'.macro.name)
                 /\ Len(store') = Len(store)
                 /\ \A i \in 1..Len(store) :
                        store'[i] =
                          IF store[i].guild_id = task'.msg.guild
                             /\ store[i].name = task'.macro.name
                          THEN [store[i] EXCEPT !.counter = @ + 1]
                          ELSE store[i]
            ELSE store' = store]_vars

\* A macro fired after an earlier candidate was evaluated and did not.
C5_Witness ==
    /\ Delivering(task)
    /\ Len(task.exits) >= 2
    /\ task.exits[1].exit \in {"no_trigger", "channel", "user"}
    /\ store[Find(store, task.msg.guild, task.macro.name)].counter = 1

\* A management command starts with this step, or ends with it.
CmdStarts(op) == cmd.pc = "idle" /\ cmd'.pc = "reply" /\ cmd'.op = op

CmdEnds(op) == cmd.pc # "idle" /\ cmd.op = op /\ cmd'.pc = "idle"

(***************************************************************************)
(* C6. When an add, update or remove that changed the store has finished,  *)
(* with its reply delivered or failed, the index is the per-guild mapping  *)
(* computed from the current store.                                        *)
(***************************************************************************)
C6_IndexRebuiltWhenCommandEnds ==
    [][(cmd.pc # "idle" /\ ~cmd.final /\ cmd'.pc = "idle")
          => triggers' = RefreshTriggers(store')]_vars

\* The tokens a caller writes for false.
FalseTokens == {"False", "false", "0", ""}

(***************************************************************************)
(* C7. An update changes only the fields supplied: an omitted field keeps  *)
(* its stored value, a boolean field supplied as false is stored as false, *)
(* and a list field supplied empty is stored as empty.                     *)
(***************************************************************************)
C7_UpdateSetsWhatIsSupplied ==
    [][(CmdStarts("update") /\ Find(store, cmd'.guild, cmd'.name) # 0
          /\ ~ParseError(cmd'.params))
          => LET p == Find(store, cmd'.guild, cmd'.name)
                 given == cmd'.params
             IN  /\ Len(store') = Len(store)
                 /\ \A f \in Fields : ~given[f].given => store'[p][f] = store[p][f]
                 /\ \A f \in BoolFields :
                       (given[f].given /\ given[f].vals[1] \in FalseTokens)
                          => store'[p][f] = FALSE
                 /\ \A f \in IdFields :
                       (given[f].given /\ given[f].vals = <<>>)
                          => store'[p][f] = <<>>]_vars

(***************************************************************************)
(* C8. An add of a (guild, name) that is stored, or without --match,       *)
(* --triggers or --responses, tells the caller why and changes neither the *)
(* store nor the index, from its start to its end.                         *)
(***************************************************************************)
C8_RejectedAddChangesNothing ==
    [][/\ (CmdStarts("add")
             /\ (\/ Find(store, cmd'.guild, cmd'.name) # 0
                 \/ \E f \in {"match", "triggers", "responses"} : ~cmd'.params[f].given))
          => /\ cmd'.final
             /\ cmd'.text \in {"already exists", "must be specified", "could not be added"}
             /\ Find(store, cmd'.guild, cmd'.name) # 0 => cmd'.text = "already exists"
             /\ store' = store
             /\ triggers' = triggers
       /\ (CmdEnds("add") /\ cmd.final) => (store' = store /\ triggers' = triggers)]_vars

\* A rejected add is replying while the index lags behind the store.
C8_Witness ==
    /\ cmd.pc = "reply"
    /\ cmd.op = "add"
    /\ cmd.final
    /\ cmd.text = "already exists"
    /\ triggers # RefreshTriggers(store)

(***************************************************************************)
(* C9. Removing a macro that is not stored takes the "0 removed" path: the *)
(* caller is told the macro does not exist, the command returns after the  *)
(* reply, and neither the store nor the index changes.                     *)
(***************************************************************************)
C9_RemoveOfAbsentChangesNothing ==
    [][/\ (CmdStarts("remove") /\ Find(store, cmd'.guild, cmd'.name) = 0)
          => /\ cmd'.final
             /\ cmd'.text = "does not exist"
             /\ store' = store
             /\ triggers' = triggers
       /\ (CmdEnds("remove") /\ cmd.final) => (store' = store /\ triggers' = triggers)]_vars

\* A remove of an absent macro is replying while the index still names it.
C9_Witness ==
    /\ cmd.pc = "reply"
    /\ cmd.op = "remove"
    /\ cmd.final
    /\ cmd.guild \in DOMAIN triggers
    /\ \E i \in 1..Len(triggers[cmd.guild]) : triggers[cmd.guild][i].v = cmd.name

\* Candidate i is one the loop stops at: not stored, or stored and firing.
StopsAt(st, message, cands, i) ==
    \/ Find(st, message.guild, cands[i]) = 0
    \/ StoredShouldFire(st, message, cands[i])

(***************************************************************************)
(* C10. A candidate that is not in the store is skipped: it does not fire, *)
(* and when guild_log.error returns the loop evaluates the candidates      *)
(* left, so that the first of them that is stored and should fire fires.   *)
(***************************************************************************)
C10_StaleCandidateSkipped ==
    [][(task.pc = "log_error" /\ task' # task)
          => /\ Find(store, task.msg.guild, task.macro.name) = 0 => store' = store \/ FireStep
             /\ \A i \in 1..Len(task.cands) :
                   (/\ StoredShouldFire(store, task.msg, task.cands[i])
                    /\ \A j \in 1..(i - 1) : ~StopsAt(store, task.msg, task.cands, j))
                      => /\ Delivering(task')
                         /\ task'.macro.name = task.cands[i]
                         /\ task'.fired = <<task.cands[i]>>
                         /\ store' = Bump(store, task.msg.guild, task.cands[i])
             /\ (\A i \in 1..Len(task.cands) : ~StopsAt(store, task.msg, task.cands, i))
                   => (task'.pc = "idle" /\ task'.result = "returned" /\ store' = store)
             /\ task'.result # "raised"]_vars

\* A macro fired after a candidate before it was not in the store.
C10_Witness ==
    /\ Delivering(task)
    /\ Len(task.exits) >= 2
    /\ task.exits[1].exit = "not_found"
    /\ task.exits[Len(task.exits)].exit = "fired"

(***************************************************************************)
(* C11. When the deletion of the triggering message fails, the handler     *)
(* goes on to the delivery with the same macro and message and does not    *)
(* raise; the response it then delivers is one of the macro's responses,   *)
(* sent as a direct message if dm and as a reply otherwise.                *)
(***************************************************************************)
C11_ReplyAfterFailedDelete ==
    [][/\ (task.pc = "delete" /\ task' # task /\ cmd' = cmd)
          => /\ task'.pc = "send"
             /\ task'.macro.name = task.macro.name
             /\ task'.macro.responses = task.macro.responses
             /\ task'.msg = task.msg
             /\ task'.result # "raised"
             /\ store' = store
       /\ (task.pc = "send" /\ task.deleted = <<FALSE>> /\ task' # task
             /\ task'.result # "raised")
          => /\ Len(task'.sent) = 1
             /\ task'.sent[1].how = (IF task.macro.dm THEN "dm" ELSE "reply")
             /\ task'.sent[1].response \in Values(task.macro.responses)]_vars

\* The deletion failed and the handler stands at the direct message.
C11_Witness ==
    /\ task.pc = "send"
    /\ task.deleted = <<FALSE>>
    /\ task.macro.dm
    /\ task.sent = <<>>

(***************************************************************************)
(* C12. The counter is incremented in the step that leads to the deletion  *)
(* or the delivery, before either is attempted; when the delivery fails    *)
(* the store keeps the increment, the handler ends, and no candidate is    *)
(* evaluated after the failure.                                            *)
(***************************************************************************)
C12_BumpNotRolledBack ==
    [][/\ FireStep
          => /\ store' = Bump(store, task'.msg.guild, task'.macro.name)
             /\ task'.deleted = <<>>
             /\ task'.sent = <<>>
       /\ (task.pc = "send" /\ task' # task /\ task'.sent = task.sent)
          => /\ store' = store
             /\ task' = Ended("raised", <<>>)]_vars

\* The delivery failed, the handler has ended, and the increment is in the
\* store.
C12_Witness ==
    /\ task.pc = "idle"
    /\ task.result = "raised"
    /\ task.sent = <<>>
    /\ \E i \in 1..Len(store) : store[i].counter = 1

(***************************************************************************)
(* C13. A dispatch never sees a half-rebuilt index: a step that changes    *)
(* the shared index sets it to the whole mapping computed from the store   *)
(* as it is, and no step of a dispatch falls inside a rebuild (the step    *)
(* that changes the index moves no dispatch and changes no macro).         *)
(***************************************************************************)
C13_IndexReplacedWhole ==
    [][triggers' # triggers
          => /\ triggers' = RefreshTriggers(store)
             /\ store' = store
             /\ task' = task]_vars

\* The index was rebuilt while a dispatch was suspended: the guild of the
\* message in hand is no longer a key of the index.
C13_Witness ==
    /\ Delivering(task)
    /\ cmd.pc = "idle"
    /\ triggers = RefreshTriggers(store)
    /\ task.msg.guild \notin DOMAIN triggers

\* The names a dispatch has evaluated, then the candidates it has left.
Enumeration(t) == [i \in 1..Len(t.exits) |-> t.exits[i].name] \o t.cands

(***************************************************************************)
(* C20. A dispatch enumerates the candidates of the index it read when it  *)
(* started: whatever happens to the index while it is suspended, the names *)
(* evaluated and the candidates left stay those of that mapping, a         *)
(* candidate evaluated after a suspension is checked against the store as  *)
(* it is then, and resuming does not raise.                                *)
(***************************************************************************)
C20_EnumeratesItsSnapshot ==
    [][/\ (task.pc = "idle" /\ task'.pc # "idle")
          => Enumeration(task') =
                GetPotentialMacros(triggers[task'.msg.guild], Lower(task'.msg.content))
       /\ (task.pc # "idle" /\ task'.pc # "idle")
          => Enumeration(task') = Enumeration(task)
       /\ (task.pc = "log_error" /\ task' # task)
          => /\ task'.result # "raised"
             /\ Delivering(task')
                   => /\ task'.macro.name \in Values(task.cands)
                      /\ StoredShouldFire(store, task.msg, task'.macro.name)]_vars

\* A dispatch is suspended with a candidate left while the rebuilt index
\* no longer has the guild of its message.
C20_Witness ==
    /\ task.pc = "log_error"
    /\ task.cands # <<>>
    /\ triggers = RefreshTriggers(store)
    /\ task.msg.guild \notin DOMAIN triggers

(***************************************************************************)
(* C14. A message written by a bot is never evaluated: handling it returns *)
(* at once, with no candidate looked up, no counter bumped, nothing        *)
(* deleted and nothing delivered, whatever the store and the index hold.   *)
(***************************************************************************)
C14_BotMessageIgnored ==
    [][(task'.msg.bot /\ task' # task)
          => /\ task.pc = "idle"
             /\ task'.pc = "idle"
             /\ task'.result = "returned"
             /\ task'.exits = <<>>
             /\ task'.fired = <<>>
             /\ task'.deleted = <<>>
             /\ task'.sent = <<>>
             /\ store' = store
             /\ triggers' = triggers]_vars

\* A bot's message has been handled while a candidate of the index for it
\* is stored and should fire.
C14_Witness ==
    /\ task.pc = "idle"
    /\ task.msg.bot
    /\ \E m \in Messages :
          /\ m.bot
          /\ \E n \in Candidates(triggers, m) : StoredShouldFire(store, m, n)

\* The guilds that have a macro in the store.
StoredGuilds(st) == {st[i].guild_id : i \in 1..Len(st)}

(***************************************************************************)
(* C18. A guild is a key of the index only with a non-empty entry; a       *)
(* freshly rebuilt index has exactly the guilds that have a macro as keys, *)
(* so that after the last macro of a guild is removed and the index        *)
(* rebuilt, a message from that guild is turned away by the membership     *)
(* check.                                                                  *)
(***************************************************************************)
C18_NoEmptyIndexEntry ==
    /\ [](/\ \A g \in DOMAIN triggers : triggers[g] # <<>>
          /\ triggers = RefreshTriggers(store) => DOMAIN triggers = StoredGuilds(store))
    /\ [][(/\ task.pc = "idle"
           /\ task' # task
           /\ StoredGuilds(store) = {}
           /\ triggers = RefreshTriggers(store))
             => /\ task'.pc = "idle"
                /\ task'.result = "returned"
                /\ task'.sent = <<>>
                /\ task'.exits = <<>>
                /\ store' = store]_vars

\* A macro fired earlier; since then the last macro was removed and the
\* index rebuilt.
C18_Witness ==
    /\ store = <<>>
    /\ DOMAIN triggers = {}
    /\ cmd.pc = "idle"
    /\ task.pc = "idle"
    /\ task.sent # <<>>

(***************************************************************************)
(* C19. Handling a message always ends by returning its "fired" outcome:   *)
(* no failure met while a candidate is matched or acted on (a stale entry, *)
(* a failed deletion, a failed delivery) ends the handler by an exception. *)
(***************************************************************************)
C19_HandlerAlwaysReturns ==
    [][(task' # task /\ task'.pc = "idle") => task'.result = "returned"]_vars

\* The strings that differ from s in letter case at most.
CaseVariants(s) == {c \in StringsOf(Len(s), Len(s)) : Lower(c) = Lower(s)}

\* The trigger lists that differ from tr in letter case at most.
TriggerVariants(tr) ==
    {v \in [1..Len(tr) -> StringsOf(1, MaxTrigLen)] :
        \A i \in 1..Len(tr) : Lower(v[i]) = Lower(tr[i])}

\* t and c are different strings that are equal up to letter case.
CaseOnlyDiffers(t, c) == t # c /\ Lower(t) = Lower(c)

(***************************************************************************)
(* C16. For a macro that is not sensitive, an evaluation ends the same way *)
(* and the index yields the same candidates whatever the letter case of    *)
(* the message body and of the macro's triggers; for a sensitive macro the *)
(* trigger test compares the literal strings, so a message that differs    *)
(* from every trigger in case only does not fire it.                       *)
(***************************************************************************)
C16_CaseInvariantUnlessSensitive ==
    Called =>
        LET macro == store[1]
            msg == task.msg
            outcome == task.exits[1].exit
        IN  /\ ~macro.sensitive =>
                  \A c \in CaseVariants(msg.content), tr \in TriggerVariants(macro.triggers) :
                      LET macro2 == [macro EXCEPT !.triggers = tr, !.counter = 0]
                          msg2 == [msg EXCEPT !.content = c]
                      IN  /\ ProcessMacro(<<macro2>>, msg2, macro.name).exit = outcome
                          /\ Candidates(RefreshTriggers(<<macro2>>), msg2)
                                = Candidates(RefreshTriggers(store), msg)
            /\ macro.sensitive =>
                  /\ outcome # "no_trigger" <=>
                        \E i \in 1..Len(macro.triggers) :
                            ModeHolds(macro.match, macro.triggers[i], msg.content)
                  /\ (\A i \in 1..Len(macro.triggers) :
                          CaseOnlyDiffers(macro.triggers[i], msg.content))
                        => outcome = "no_trigger"

\* A macro that is not sensitive fired for a message that holds none of its
\* triggers literally.
C16_Witness ==
    /\ Called
    /\ ~store[1].sensitive
    /\ task.exits[1].exit = "fired"
    /\ \A i \in 1..Len(store[1].triggers) :
          ~IsInfix(store[1].triggers[i], task.msg.content)

(***************************************************************************)
(* C15. A message of guild G fires only a macro of guild G: the record     *)
(* bumped is the one stored under (G, name), every other record is left    *)
(* alone, and the response delivered is one of that macro's, also when the *)
(* other guild has a macro of the same name or with the same trigger.      *)
(***************************************************************************)
C15_FiresWithinGuild ==
    [][/\ FireStep
          => \E i \in 1..Len(store) :
                /\ store[i].guild_id = task'.msg.guild
                /\ store[i].name = task'.macro.name
                /\ task'.macro.responses = store[i].responses
                /\ store' = [store EXCEPT ![i].counter = @ + 1]
       /\ (task.pc = "send" /\ task'.sent # task.sent)
          => task'.sent[1].response = ResponseOf(task.msg.guild)]_vars

\* A macro of guild 2 fired while guild 1 holds, untouched, a macro of the
\* same name with the same trigger.
C15_Witness ==
    /\ Delivering(task)
    /\ task.msg.guild = 2
    /\ Find(store, 1, task.macro.name) # 0
    /\ Find(store, 2, task.macro.name) # 0
    /\ store[Find(store, 1, task.macro.name)].triggers
          = store[Find(store, 2, task.macro.name)].triggers
    /\ store[Find(store, 1, task.macro.name)].match = "ANY"
    /\ store[Find(store, 1, task.macro.name)].counter = 0

(***************************************************************************)
(* C17. A stored macro whose match mode is none of FULL, START, END, ANY   *)
(* never fires and never raises: its counter stays as stored, a step that  *)
(* evaluates candidates does not end by an exception, and the candidates   *)
(* after it are evaluated, so that, all candidates being stored, one that  *)
(* should fire fires.                                                      *)
(***************************************************************************)
C17_OtherMatchNeverFires ==
    /\ [](\A i \in 1..Len(store) : store[i].match \notin MatchNames => store[i].counter = 0)
    /\ [][/\ FireStep
             => store[Find(store, task'.msg.guild, task'.macro.name)].match \in MatchNames
          /\ (task.pc \in {"idle", "log_error"} /\ task' # task)
             => task'.result # "raised"
          /\ \A m \in DispatchMessages :
                (/\ OnMessage(m)
                 /\ \A n \in Candidates(triggers, m) : Find(store, m.guild, n) # 0
                 /\ \E n \in Candidates(triggers, m) : StoredShouldFire(store, m, n))
                   => /\ Delivering(task')
                      /\ StoredShouldFire(store, m, task'.macro.name)]_vars

\* A macro fired after a candidate with another match mode, whose trigger
\* is in the message, was evaluated and did not.
C17_Witness ==
    /\ Delivering(task)
    /\ Len(task.exits) = 2
    /\ task.exits[1].exit = "no_trigger"
    /\ Find(store, task.msg.guild, task.exits[1].name) # 0
    /\ LET other == store[Find(store, task.msg.guild, task.exits[1].name)]
       IN  /\ other.match = OtherMatch
           /\ IsInfix(Lower(other.triggers[1]), Lower(task.msg.content))

====
